---------------------------- MODULE Spec2Model ----------------------------
(***************************************************************************)
(* Gesture classification and temporal stabilization pipeline of the sign  *)
(* language to text converter.  Two variants of the component live in the  *)
(* repository: src/unnamed/part_000 (BUFFER_SIZE 5, the smaller rule set)  *)
(* and src/src/App.js (BUFFER_SIZE 10, the richer rule set, keyboard       *)
(* shortcuts).  The variable `variant` selects which of the two is running.*)
(*                                                                         *)
(* Geometry is modelled over integer keypoint coordinates.  A comparison   *)
(* dist > handSize * c of the source is decided on the squares             *)
(* (dist^2 * den^2 > handSize^2 * num^2 for c = num/den), which is exact   *)
(* over the reals; a frame whose coordinates are NaN makes every           *)
(* comparison false, as IEEE comparisons with NaN are.                     *)
(***************************************************************************)
EXTENDS Integers, Sequences, FiniteSets, TLC

VARIABLES
    variant,            \* which source file is running: "part_000" or "App"
    gestureBuffer,      \* gestureBuffer.current: the smoothing window, oldest first
    stableGesture,      \* stableGesture.current
    stableCount,        \* stableCount.current
    lastWrittenLetter,  \* lastWrittenLetter.current
    wasHandPresent,     \* wasHandPresent.current
    text,               \* React state `text`, a sequence of characters
    gesture,            \* React state `gesture`, the displayed symbol
    err,                \* rejection reason of the last detect() promise ("" if none)
    autoSpaces,         \* history: spaces detect() appended since the last hand frame
    runCommits,         \* history: symbols appended during the current hold of one symbol
    factor,             \* classifier runs: the factor the frame is scaled by
    hand,               \* the frame handed to recognizeGesture (classifier runs)
    symbol,             \* what recognizeGesture returned for `hand`
    scenario,           \* scripted runs: the name of the stream being fed
    fed,                \* scripted runs: number of operations of the stream fed
    inflight,           \* frame loop: frame numbers of the detect() calls awaiting
    started,            \* frame loop: number of detect() calls started
    applied,            \* frame loop: frame numbers in the order they updated the state
    waveCycleCount,     \* wave variant: direction reversals counted so far
    waveDirection,      \* wave variant: last direction of the wrist (+1, -1, 0 none)
    waveStationaryFrames, \* wave variant: consecutive frames below the threshold
    prevWristX          \* wave variant: wrist x of the previous frame (NoX: none)

vars == <<variant, gestureBuffer, stableGesture, stableCount, lastWrittenLetter,
          wasHandPresent, text, gesture, err, autoSpaces, runCommits,
          factor, hand, symbol, scenario, fed, inflight, started, applied,
          waveCycleCount, waveDirection, waveStationaryFrames, prevWristX>>

waveVars == <<waveCycleCount, waveDirection, waveStationaryFrames, prevWristX>>

engineVars == <<gestureBuffer, stableGesture, stableCount, lastWrittenLetter,
                wasHandPresent, text, gesture, err, autoSpaces, runCommits>>

(***************************************************************************)
(* Symbols                                                                 *)
(***************************************************************************)
Variants == {"part_000", "App"}

\* The neutral open-hand symbol, the emoji string the classifier returns as fallback.
OpenHand == "OPEN_HAND"
\* The "no hand" display string set by detect() when no hand is detected.
ShowHand == "SHOW_HAND"
\* The exception recognizeGesture raises when a keypoint it reads is undefined.
TypeError == "TypeError"
SP == " "

Letters == {"A","B","C","D","E","F","G","H","I","K","L","M","N","O","P","Q",
            "R","S","T","U","V","W","X","Y"}
Alphabet == Letters \cup {OpenHand}

STABLE_THRESHOLD == 15

BUFFER_SIZE(v) == IF v = "part_000" THEN 5 ELSE 10

(***************************************************************************)
(* Hand frames: 21 keypoints, index 0..20, each <<x, y>>.  n is the number *)
(* of keypoints the detector delivered, nan whether the coordinates are    *)
(* NaN.                                                                    *)
(***************************************************************************)
PX(f, i) == f.k[i][1]
PY(f, i) == f.k[i][2]
Abs(a) == IF a < 0 THEN -a ELSE a
Sq(a) == a * a

\* squared Math.hypot(k[i].x - k[j].x, k[i].y - k[j].y)
D2(f, i, j) == Sq(PX(f, i) - PX(f, j)) + Sq(PY(f, i) - PY(f, j))
\* squared handSize
HandSize2(f) == D2(f, 9, 0)

\* d(i, j) > T(num/den)
DistGt(f, i, j, num, den) ==
    ~f.nan /\ D2(f, i, j) * Sq(den) > HandSize2(f) * Sq(num)
\* d(i, j) < T(num/den)
DistLt(f, i, j, num, den) ==
    ~f.nan /\ D2(f, i, j) * Sq(den) < HandSize2(f) * Sq(num)
\* a > T(num/den) for a coordinate difference a
GtT(f, a, num, den) ==
    ~f.nan /\ a > 0 /\ Sq(a) * Sq(den) > HandSize2(f) * Sq(num)
\* a < T(num/den) for a coordinate difference a
LtT(f, a, num, den) ==
    ~f.nan /\ (a < 0 \/ Sq(a) * Sq(den) < HandSize2(f) * Sq(num))
\* a > b on coordinates
Gt(f, a, b) == ~f.nan /\ a > b

(***************************************************************************)
(* recognizeGesture, src/unnamed/part_000                                  *)
(***************************************************************************)
\* isExtended(tip, mcp): dist > T(0.6)
isExtended_part000(f, tip, mcp) == DistGt(f, tip, mcp, 6, 10)

\* mutant: the O test of line 113 runs before the index-only family
IndexOnly_OFirst(f) ==
    IF DistGt(f, 8, 5, 55, 100) THEN "O" ELSE "D"

\* the index-only family: G, L, X, D
IndexOnly_part000(f) ==
    LET xDiff == Abs(PX(f, 8) - PX(f, 5))
        yDiff == Abs(PY(f, 8) - PY(f, 5))
    IN  IF GtT(f, xDiff - yDiff, 1, 10) THEN "G"
        ELSE IF DistGt(f, 4, 5, 9, 10) THEN "L"
        ELSE IF LtT(f, PY(f, 6) - PY(f, 8), 2, 10) THEN "X"
        ELSE "D"

\* the index+middle family: H, R, V, U
TwoFingers_part000(f) ==
    LET xDiff == Abs(PX(f, 8) - PX(f, 5))
        yDiff == Abs(PY(f, 8) - PY(f, 5))
    IN  IF Gt(f, xDiff, yDiff) THEN "H"
        ELSE IF Gt(f, PX(f, 8), PX(f, 12)) /\ LtT(f, PX(f, 8) - PX(f, 12), 4, 10)
             THEN "R"
        ELSE IF DistGt(f, 8, 12, 5, 10) THEN "V"
        ELSE "U"

\* the fist family: O, E, A, S
Fist_part000(f) ==
    IF DistGt(f, 8, 5, 65, 100) THEN "O"
    ELSE IF Gt(f, PY(f, 4), PY(f, 5)) THEN "E"
    ELSE IF GtT(f, Abs(PX(f, 4) - PX(f, 5)), 25, 100) THEN "A"
    ELSE "S"

\* the pinky-only family: Y, I
Pinky_part000(f) == IF DistGt(f, 4, 20, 12, 10) THEN "Y" ELSE "I"

\* the all-four family: B, C, neutral
AllFour_part000(f) ==
    IF LtT(f, Abs(PX(f, 4) - PX(f, 5)), 35, 100) THEN "B"
    ELSE IF DistLt(f, 4, 8, 8, 10) /\ DistLt(f, 8, 5, 85, 100) THEN "C"
    ELSE OpenHand

\* the last statement of recognizeGesture
Fallback_part000 == OpenHand

recognizeGesture_part000(f) ==
    LET indexExt  == isExtended_part000(f, 8, 5)
        middleExt == isExtended_part000(f, 12, 9)
        ringExt   == isExtended_part000(f, 16, 13)
        pinkyExt  == isExtended_part000(f, 20, 17)
    IN  IF f.n < 21 THEN TypeError   \* k[20] is undefined: k[20].x throws
        ELSE IF indexExt /\ ~middleExt /\ ~ringExt /\ ~pinkyExt
             THEN IndexOnly_part000(f)
        ELSE IF ~middleExt /\ ~ringExt /\ ~pinkyExt /\ DistGt(f, 8, 5, 55, 100)
             THEN "O"
        ELSE IF DistLt(f, 4, 8, 45, 100) /\ middleExt /\ ringExt /\ pinkyExt
             THEN "F"
        ELSE IF indexExt /\ middleExt /\ ~ringExt /\ ~pinkyExt
             THEN TwoFingers_part000(f)
        ELSE IF ~indexExt /\ ~middleExt /\ ~ringExt /\ ~pinkyExt
             THEN Fist_part000(f)
        ELSE IF ~indexExt /\ ~middleExt /\ ~ringExt /\ pinkyExt
             THEN Pinky_part000(f)
        ELSE IF indexExt /\ middleExt /\ ringExt /\ pinkyExt
             THEN AllFour_part000(f)
        ELSE IF indexExt /\ middleExt /\ ringExt /\ ~pinkyExt THEN "W"
        ELSE Fallback_part000

(***************************************************************************)
(* recognizeGesture, src/src/App.js                                        *)
(***************************************************************************)
\* mutant: the threshold is a fixed number of pixels, not a share of handSize
isExtended_Pixels(f, tip, mcp) == ~f.nan /\ D2(f, tip, mcp) * Sq(100) > Sq(550)

\* isExtended(tipIdx, mcpIdx): dist > T(0.55)
isExtended_App(f, tip, mcp) == DistGt(f, tip, mcp, 55, 100)

\* const pointingDown = k[8].y > k[0].y
pointingDown(f) == Gt(f, PY(f, 8), PY(f, 0))

\* Math.abs(k[8].x - k[5].x) > Math.abs(k[8].y - k[5].y) * 1.5
isHorizontal(f) ==
    Gt(f, 2 * Abs(PX(f, 8) - PX(f, 5)), 3 * Abs(PY(f, 8) - PY(f, 5)))

\* the two-finger group: R, K, V, U
TwoFingers_App(f) ==
    IF LtT(f, Abs(PX(f, 8) - PX(f, 12)), 25, 100) THEN "R"
    ELSE IF LtT(f, PY(f, 4) - PY(f, 9), 2, 10) THEN "K"
    ELSE IF DistGt(f, 8, 12, 45, 100) THEN "V"
    ELSE "U"

\* the fist group: O, E, A, M, N, T, S
Fist_App(f) ==
    IF DistLt(f, 4, 8, 5, 10) THEN "O"
    ELSE IF DistLt(f, 4, 13, 5, 10) /\ Gt(f, PY(f, 4), PY(f, 13)) THEN "E"
    ELSE IF DistGt(f, 4, 5, 5, 10) /\ Gt(f, PY(f, 5), PY(f, 4)) THEN "A"
    ELSE IF DistLt(f, 4, 13, 3, 10) \/ DistLt(f, 4, 17, 35, 100) THEN "M"
    ELSE IF DistLt(f, 4, 9, 3, 10) THEN "N"
    ELSE IF DistLt(f, 4, 5, 35, 100) THEN "T"
    ELSE "S"

\* mutant: the function ends without a return statement
Fallback_Missing == "undefined"

\* the last statement of recognizeGesture
Fallback_App == OpenHand

\* recognizeGesture from the horizontal group on (sections 2 to 7)
AfterDownward_App(f, indexExt, middleExt, ringExt, pinkyExt) ==
    IF isHorizontal(f) /\ ~ringExt /\ ~pinkyExt
        THEN (IF middleExt THEN "H" ELSE "G")
    ELSE IF ~middleExt /\ ~ringExt /\ ~pinkyExt /\ indexExt
        THEN (IF DistGt(f, 4, 5, 9, 10) THEN "L" ELSE "D")
    ELSE IF ~middleExt /\ ~ringExt /\ ~pinkyExt
            /\ DistLt(f, 8, 5, 5, 10) /\ DistGt(f, 8, 5, 2, 10)
        THEN "X"
    ELSE IF indexExt /\ middleExt /\ ~ringExt /\ ~pinkyExt
        THEN TwoFingers_App(f)
    ELSE IF indexExt /\ middleExt /\ ringExt
        THEN (IF pinkyExt
              THEN (IF DistLt(f, 4, 17, 1, 1) THEN "B" ELSE OpenHand)
              ELSE "W")
    ELSE IF ~indexExt /\ middleExt /\ ringExt /\ pinkyExt /\ DistLt(f, 4, 8, 5, 10)
        THEN "F"
    ELSE IF ~indexExt /\ ~middleExt /\ ~ringExt /\ pinkyExt
        THEN (IF DistGt(f, 4, 17, 11, 10) THEN "Y" ELSE "I")
    ELSE IF ~indexExt /\ ~middleExt /\ ~ringExt /\ ~pinkyExt
        THEN Fist_App(f)
    ELSE Fallback_App

recognizeGesture_App(f) ==
    LET indexExt  == isExtended_App(f, 8, 5)
        middleExt == isExtended_App(f, 12, 9)
        ringExt   == isExtended_App(f, 16, 13)
        pinkyExt  == isExtended_App(f, 20, 17)
    IN  IF f.n < 21 THEN TypeError   \* k[20] is undefined: k[20].x throws
        ELSE IF pointingDown(f) /\ indexExt /\ ~middleExt /\ ~ringExt /\ ~pinkyExt
                /\ DistGt(f, 4, 8, 6, 10)
             THEN "Q"
        ELSE IF pointingDown(f) /\ indexExt /\ middleExt /\ ~ringExt /\ ~pinkyExt
             THEN "P"
        ELSE AfterDownward_App(f, indexExt, middleExt, ringExt, pinkyExt)

\* the four-bit vector <<indexExt, middleExt, ringExt, pinkyExt>>
ExtBits(v, f) ==
    IF v = "part_000"
    THEN <<isExtended_part000(f, 8, 5), isExtended_part000(f, 12, 9),
           isExtended_part000(f, 16, 13), isExtended_part000(f, 20, 17)>>
    ELSE <<isExtended_App(f, 8, 5), isExtended_App(f, 12, 9),
           isExtended_App(f, 16, 13), isExtended_App(f, 20, 17)>>

recognizeGesture(v, f) ==
    IF v = "part_000" THEN recognizeGesture_part000(f) ELSE recognizeGesture_App(f)

(***************************************************************************)
(* The hand frames the checks draw from.  The wrist is at (10, 20), the    *)
(* knuckle row above it (y grows downwards, as in the video frame), so     *)
(* handSize is 10.  The four finger tips, the thumb tip and the index PIP  *)
(* joint each take one of a few positions; the other keypoints are not     *)
(* read by recognizeGesture and stay on the base skeleton.                 *)
(***************************************************************************)
BaseHand ==
    [i \in 0..20 |->
        CASE i = 0  -> <<10, 20>>
          [] i = 1  -> <<6, 18>>
          [] i = 2  -> <<4, 16>>
          [] i = 3  -> <<3, 13>>
          [] i = 4  -> <<6, 12>>
          [] i = 5  -> <<6, 11>>
          [] i = 6  -> <<6, 7>>
          [] i = 7  -> <<6, 4>>
          [] i = 8  -> <<6, 2>>
          [] i = 9  -> <<10, 10>>
          [] i = 10 -> <<10, 6>>
          [] i = 11 -> <<10, 3>>
          [] i = 12 -> <<10, 1>>
          [] i = 13 -> <<13, 11>>
          [] i = 14 -> <<13, 7>>
          [] i = 15 -> <<13, 4>>
          [] i = 16 -> <<13, 2>>
          [] i = 17 -> <<16, 12>>
          [] i = 18 -> <<16, 9>>
          [] i = 19 -> <<16, 6>>
          [] OTHER  -> <<16, 4>>]

IndexTips  == {<<6, 2>>, <<6, 4>>, <<6, 5>>, <<6, 7>>, <<6, 13>>, <<-3, 11>>, <<6, 22>>,
               <<2, 10>>}
MiddleTips == {<<10, 1>>, <<10, 12>>, <<5, 1>>, <<12, 2>>}
RingTips   == {<<13, 2>>, <<13, 13>>}
PinkyTips  == {<<16, 4>>, <<16, 14>>}
ThumbTips  == {<<6, 12>>, <<-4, 10>>, <<6, 3>>, <<13, 12>>, <<10, 11>>, <<3, 9>>,
               <<2, 8>>, <<12, 11>>, <<10, 9>>, <<6, 8>>}
IndexPips  == {<<6, 7>>, <<6, 5>>}

\* a well-formed frame: 21 keypoints, finite coordinates
MkFrame(thumb, pip, index, middle, ring, pinky) ==
    [k   |-> [BaseHand EXCEPT ![4] = thumb, ![6] = pip, ![8] = index,
                              ![12] = middle, ![16] = ring, ![20] = pinky],
     n   |-> 21,
     nan |-> FALSE]

HandFrames ==
    {MkFrame(t, p, i, m, r, q) :
        t \in ThumbTips, p \in IndexPips, i \in IndexTips,
        m \in MiddleTips, r \in RingTips, q \in PinkyTips}

\* index up, the other fingers curled, thumb tucked: D in both rule sets
FrameD    == MkFrame(<<6, 12>>, <<6, 7>>, <<6, 2>>, <<10, 12>>, <<13, 13>>, <<16, 14>>)
\* all four fingers up, thumb far out: the neutral open hand in both rule sets
FrameOpen == MkFrame(<<-4, 10>>, <<6, 7>>, <<6, 2>>, <<10, 1>>, <<13, 2>>, <<16, 4>>)
\* fist, thumb out to the side and above the index knuckle: A in both rule sets
FrameA    == MkFrame(<<-4, 10>>, <<6, 7>>, <<6, 13>>, <<10, 12>>, <<13, 13>>, <<16, 14>>)

\* index hooked: X in the rule set of variant v (part_000 reads X off an extended
\* index whose tip is not above the PIP joint, App.js off a half-curled index)
FrameX(v) ==
    IF v = "part_000"
    THEN MkFrame(<<6, 12>>, <<6, 5>>, <<6, 4>>, <<10, 12>>, <<13, 13>>, <<16, 14>>)
    ELSE MkFrame(<<6, 12>>, <<6, 7>>, <<6, 7>>, <<10, 12>>, <<13, 13>>, <<16, 14>>)

\* malformed frames: fewer than 21 keypoints; NaN coordinates
ShortFrame == [FrameD EXCEPT !.n = 20]
NaNFrame   == [FrameD EXCEPT !.nan = TRUE]

NoFrame == [k |-> <<>>, n |-> 0, nan |-> FALSE]

\* the frame f with every coordinate multiplied by c
Scale(f, c) == [f EXCEPT !.k = [i \in 0..20 |-> <<c * f.k[i][1], c * f.k[i][2]>>]]
\* the frame f moved by dx along x
Translate(f, dx) == [f EXCEPT !.k = [i \in 0..20 |-> <<f.k[i][1] + dx, f.k[i][2]>>]]

(***************************************************************************)
(* detect(): the part after `await detector.estimateHands(...)`.  It runs  *)
(* without interruption (one JavaScript task), so it is one step.          *)
(***************************************************************************)
\* mutant: the oldest entry is never shifted out
Push_NoShift(v, buf, raw) == Append(buf, raw)

\* gestureBuffer.current.push(rawGesture); if (length > BUFFER_SIZE) shift()
Push(v, buf, raw) ==
    LET pushed == Append(buf, raw)
    IN  IF Len(pushed) > BUFFER_SIZE(v) THEN Tail(pushed) ELSE pushed

\* counts[g] after the forEach callback has run for the entries 1..i
CountUpTo(buf, i, g) == Cardinality({j \in 1..i : buf[j] = g})

\* mutant: if (counts[g] >= maxCount), the last symbol to reach the count wins
RECURSIVE SmoothFrom_LastWins(_, _, _, _)
SmoothFrom_LastWins(buf, i, maxCount, smoothed) ==
    IF i > Len(buf) THEN smoothed
    ELSE LET c == CountUpTo(buf, i, buf[i])
         IN  IF c >= maxCount
             THEN SmoothFrom_LastWins(buf, i + 1, c, buf[i])
             ELSE SmoothFrom_LastWins(buf, i + 1, maxCount, smoothed)

\* the forEach loop: smoothedGesture after the entries i..Len(buf) are visited,
\* maxCount and smoothed being the values before entry i
RECURSIVE SmoothFrom(_, _, _, _)
SmoothFrom(buf, i, maxCount, smoothed) ==
    IF i > Len(buf) THEN smoothed
    ELSE LET c == CountUpTo(buf, i, buf[i])
         IN  IF c > maxCount
             THEN SmoothFrom(buf, i + 1, c, buf[i])
             ELSE SmoothFrom(buf, i + 1, maxCount, smoothed)

\* let maxCount = 0; let smoothedGesture = rawGesture; gestureBuffer.current.forEach(...)
Smoothed(buf, raw) == SmoothFrom(buf, 1, 0, raw)

\* mutant: the streak is never restarted
NextStableCount_NoReset(sm) == stableCount + 1

\* if (smoothedGesture === stableGesture.current) stableCount.current += 1; else ... = 1
NextStableCount(sm) == IF sm = stableGesture THEN stableCount + 1 ELSE 1

\* mutant: the threshold test is off by one
IsStable_Late(count) == count > STABLE_THRESHOLD

\* stableCount.current >= STABLE_THRESHOLD
IsStable(count) == count >= STABLE_THRESHOLD

\* mutant: the open hand is not excluded from the text
IsWritable_OpenToo(sm) == sm # ShowHand

\* smoothedGesture !== "<open hand>" && smoothedGesture !== "<show hand>"
IsWritable(sm) == sm # OpenHand /\ sm # ShowHand

\* mutant: no repeat suppression
IsNew_Always(sm) == TRUE

\* smoothedGesture !== lastWrittenLetter.current
IsNew(sm) == sm # lastWrittenLetter

\* mutant: the letter is appended but lastWrittenLetter is not set
Commit_NoLock(sm, count) ==
    IF IsStable(count)
    THEN IF IsWritable(sm)
         THEN IF IsNew(sm)
              THEN /\ text' = Append(text, sm)
                   /\ UNCHANGED lastWrittenLetter
              ELSE UNCHANGED <<text, lastWrittenLetter>>
         ELSE /\ lastWrittenLetter' = ""
              /\ UNCHANGED text
    ELSE UNCHANGED <<text, lastWrittenLetter>>

\* mutant: the open hand clears lastWrittenLetter outside the threshold test
Commit_EagerClear(sm, count) ==
    IF IsWritable(sm)
    THEN IF IsStable(count) /\ IsNew(sm)
         THEN /\ text' = Append(text, sm)
              /\ lastWrittenLetter' = sm
         ELSE UNCHANGED <<text, lastWrittenLetter>>
    ELSE /\ lastWrittenLetter' = ""
         /\ UNCHANGED text

\* the commit block guarded by stableCount.current >= STABLE_THRESHOLD
Commit(sm, count) ==
    IF IsStable(count)
    THEN IF IsWritable(sm)
         THEN IF IsNew(sm)
              THEN /\ text' = Append(text, sm)
                   /\ lastWrittenLetter' = sm
              ELSE UNCHANGED <<text, lastWrittenLetter>>
         ELSE /\ lastWrittenLetter' = ""
              /\ UNCHANGED text
    ELSE UNCHANGED <<text, lastWrittenLetter>>

\* hands.length > 0, hands[0] = f
DetectHand(f) ==
    \E raw \in {recognizeGesture(variant, f)} :
        /\ wasHandPresent' = TRUE
        /\ autoSpaces' = 0
        /\ IF raw = TypeError
           THEN \* recognizeGesture threw: the rest of detect() is skipped and
                \* the promise detect() returned is rejected
                /\ err' = TypeError
                /\ UNCHANGED <<gestureBuffer, stableGesture, stableCount,
                               lastWrittenLetter, text, gesture, runCommits>>
           ELSE \E buf \in {Push(variant, gestureBuffer, raw)} :
                \E sm \in {Smoothed(buf, raw)} :
                \E cnt \in {NextStableCount(sm)} :
                    /\ gestureBuffer' = buf
                    /\ gesture' = sm
                    /\ stableGesture' = sm
                    /\ stableCount' = cnt
                    /\ Commit(sm, cnt)
                    /\ runCommits' = (IF sm = gesture THEN runCommits ELSE 0)
                                      + (Len(text') - Len(text))
                    /\ err' = ""

\* mutant: the space replaces the last character
AutoSpace_Overwrites(prev) ==
    IF Len(prev) > 0 /\ prev[Len(prev)] # SP
    THEN Append(SubSeq(prev, 1, Len(prev) - 1), SP)
    ELSE prev

\* mutant: the endsWith(" ") test is missing
AutoSpace_NoEndsWith(prev) == IF Len(prev) > 0 THEN Append(prev, SP) ELSE prev

\* the auto-space updater: prev.length > 0 && !prev.endsWith(" ") ? prev + " " : prev
AutoSpace(prev) ==
    IF Len(prev) > 0 /\ prev[Len(prev)] # SP THEN Append(prev, SP) ELSE prev

\* mutant: the lock is not cleared when the hand is lost
DetectNoHand_KeepsLock ==
    /\ gesture' = ShowHand
    /\ stableCount' = 0
    /\ runCommits' = 0
    /\ IF wasHandPresent
       THEN /\ text' = AutoSpace(text)
            /\ autoSpaces' = autoSpaces + (Len(AutoSpace(text)) - Len(text))
            /\ wasHandPresent' = FALSE
       ELSE UNCHANGED <<text, autoSpaces, wasHandPresent>>
    /\ err' = ""
    /\ UNCHANGED <<gestureBuffer, stableGesture, lastWrittenLetter>>

\* mutant: the streak is not reset when the hand is lost
DetectNoHand_KeepsStreak ==
    /\ gesture' = ShowHand
    /\ runCommits' = 0
    /\ lastWrittenLetter' = ""
    /\ IF wasHandPresent
       THEN /\ text' = AutoSpace(text)
            /\ autoSpaces' = autoSpaces + (Len(AutoSpace(text)) - Len(text))
            /\ wasHandPresent' = FALSE
       ELSE UNCHANGED <<text, autoSpaces, wasHandPresent>>
    /\ err' = ""
    /\ UNCHANGED <<gestureBuffer, stableGesture, stableCount>>

\* hands.length === 0
DetectNoHand ==
    /\ gesture' = ShowHand
    /\ stableCount' = 0
    /\ runCommits' = 0
    /\ lastWrittenLetter' = ""
    /\ IF wasHandPresent
       THEN /\ text' = AutoSpace(text)
            /\ autoSpaces' = autoSpaces + (Len(AutoSpace(text)) - Len(text))
            /\ wasHandPresent' = FALSE
       ELSE UNCHANGED <<text, autoSpaces, wasHandPresent>>
    /\ err' = ""
    /\ UNCHANGED <<gestureBuffer, stableGesture>>

(***************************************************************************)
(* UI operations                                                           *)
(***************************************************************************)
\* prev.slice(0, -1)
SliceLast(prev) == IF Len(prev) = 0 THEN prev ELSE SubSeq(prev, 1, Len(prev) - 1)

\* mutant: clearing the text also restarts the streak
ClearAll_ResetsStreak ==
    /\ text' = <<>>
    /\ lastWrittenLetter' = ""
    /\ stableCount' = 0
    /\ UNCHANGED <<gestureBuffer, stableGesture, wasHandPresent,
                   gesture, err, autoSpaces>>
    /\ runCommits' = 0

\* CLEAR ALL / CLEAR button, Escape key
ClearAll ==
    /\ text' = <<>>
    /\ lastWrittenLetter' = ""
    /\ UNCHANGED <<gestureBuffer, stableGesture, stableCount, wasHandPresent,
                   gesture, err, autoSpaces>>
    /\ runCommits' = 0

\* BACKSPACE / BACK button, Backspace key
Backspace ==
    /\ text' = SliceLast(text)
    /\ lastWrittenLetter' = ""
    /\ UNCHANGED <<gestureBuffer, stableGesture, stableCount, wasHandPresent,
                   gesture, err, autoSpaces>>
    /\ runCommits' = 0

\* the " " key (App.js only)
SpaceKey ==
    /\ variant = "App"
    /\ text' = Append(text, SP)
    /\ lastWrittenLetter' = ""
    /\ UNCHANGED <<gestureBuffer, stableGesture, stableCount, wasHandPresent,
                   gesture, err, autoSpaces>>
    /\ runCommits' = 0

(***************************************************************************)
(* The session: frames arrive in any order, the UI operations at any time. *)
(***************************************************************************)
MaxCount == 16
MaxText == 2
MaxRuns == 3

otherVars == <<variant, factor, hand, symbol, scenario, fed, inflight, started, applied,
               waveVars>>

\* the frames the detector delivers in the session runs
EngineFrames == {FrameD, FrameOpen}

\* the refs and React state as the component creates them; the display string is
\* the one set together with the detector
FreshEngine ==
    /\ gestureBuffer = <<>>
    /\ stableGesture = ""
    /\ stableCount = 0
    /\ lastWrittenLetter = ""
    /\ wasHandPresent = FALSE
    /\ text = <<>>
    /\ gesture = ShowHand
    /\ err = ""
    /\ autoSpaces = 0
    /\ runCommits = 0

\* no wrist position recorded
NoX == -1

NoWave ==
    /\ waveCycleCount = 0
    /\ waveDirection = 0
    /\ waveStationaryFrames = 0
    /\ prevWristX = NoX

\* recognizeGesture has not returned yet
Pending == "PENDING"

Idle ==
    /\ factor = 1
    /\ hand = NoFrame
    /\ symbol = Pending
    /\ scenario = ""
    /\ fed = 0
    /\ inflight = {}
    /\ started = 0
    /\ applied = <<>>
    /\ NoWave

Init ==
    /\ variant \in Variants
    /\ FreshEngine
    /\ Idle

\* the number of maximal blocks of equal symbols in the window
Runs(buf) ==
    IF buf = <<>> THEN 0
    ELSE 1 + Cardinality({j \in 2..Len(buf) : buf[j] # buf[j - 1]})

\* the explored part of the session: the streak counter and the text stay short,
\* and a pose is held long enough that the window never holds more than
\* MaxRuns blocks
InBounds ==
    /\ stableCount' <= MaxCount
    /\ Len(text') <= MaxText
    /\ Runs(gestureBuffer') <= MaxRuns

HandFrame ==
    /\ \E f \in EngineFrames : DetectHand(f)
    /\ InBounds
    /\ UNCHANGED otherVars

\* the pose D only
HandFrameD ==
    /\ DetectHand(FrameD)
    /\ InBounds
    /\ UNCHANGED otherVars

NoHandFrame ==
    /\ DetectNoHand
    /\ InBounds
    /\ UNCHANGED otherVars

Clear ==
    /\ ClearAll
    /\ UNCHANGED otherVars

Back ==
    /\ Backspace
    /\ UNCHANGED otherVars

Space ==
    /\ SpaceKey
    /\ InBounds
    /\ UNCHANGED otherVars

Next == HandFrame \/ NoHandFrame \/ Clear \/ Back \/ Space

Spec == Init /\ [][Next]_vars

(***************************************************************************)
(* A session followed by a hold: at any moment of the session the signer   *)
(* starts to hold one letter pose, and from then on every frame is that    *)
(* pose and no UI operation occurs.  `hand` is the pose held, `fed` the    *)
(* number of frames of the hold processed so far.                          *)
(***************************************************************************)
MaxAfter == 2

\* the letter poses that can be held
HoldFrames == {FrameD, FrameA}

\* the frames of a hold that are followed
HoldLimit(v) == BUFFER_SIZE(v) + STABLE_THRESHOLD + MaxAfter

\* one more frame of the hold: detect() with hands[0] the held pose
Hold ==
    /\ fed < HoldLimit(variant)
    /\ \E f \in (IF fed = 0 THEN HoldFrames ELSE {hand}) :
          /\ DetectHand(f)
          /\ hand' = f
    /\ fed' = fed + 1
    /\ UNCHANGED <<variant, factor, symbol, scenario, inflight, started, applied,
                   waveVars>>

\* the session goes on until the hold starts
NextHold == (fed = 0 /\ Next) \/ Hold

SpecHold == Init /\ [][NextHold]_vars

(***************************************************************************)
(* A session in which CLEAR or BACKSPACE is pressed during a hold: a       *)
(* letter is held, its streak has reached the threshold and it has been    *)
(* written.  `fed` is 1 once the button has been pressed and 2 once the    *)
(* frame after it has been processed.                                      *)
(***************************************************************************)
\* the held letter has been committed: the state the button is pressed in
Committed ==
    /\ wasHandPresent
    /\ IsStable(stableCount)
    /\ IsWritable(gesture)
    /\ stableGesture = gesture
    /\ lastWrittenLetter = gesture

\* the onClick handler of CLEAR ALL or BACKSPACE runs between two frames
OpInHold ==
    /\ fed = 0
    /\ Committed
    /\ (ClearAll \/ Backspace)
    /\ fed' = 1
    /\ UNCHANGED <<variant, factor, hand, symbol, scenario, inflight, started,
                   applied, waveVars>>

\* the next frame of the loop, the hand still in view
FrameAfterOp ==
    /\ fed = 1
    /\ \E f \in EngineFrames : DetectHand(f)
    /\ fed' = 2
    /\ UNCHANGED <<variant, factor, hand, symbol, scenario, inflight, started,
                   applied, waveVars>>

NextReHold == (fed = 0 /\ Next) \/ OpInHold \/ FrameAfterOp

SpecReHold == Init /\ [][NextReHold]_vars

(***************************************************************************)
(* A session without the space key, followed over a longer text: frames,   *)
(* CLEAR ALL and BACKSPACE only.                                           *)
(***************************************************************************)
MaxLine == 4

\* the explored part of this session
LineInBounds ==
    /\ stableCount' <= MaxCount
    /\ Len(text') <= MaxLine
    /\ Runs(gestureBuffer') <= MaxRuns

LineHandFrame ==
    /\ \E f \in EngineFrames : DetectHand(f)
    /\ LineInBounds
    /\ UNCHANGED otherVars

LineNoHandFrame ==
    /\ DetectNoHand
    /\ LineInBounds
    /\ UNCHANGED otherVars

NextLine == LineHandFrame \/ LineNoHandFrame \/ Clear \/ Back

SpecLine == Init /\ [][NextLine]_vars

(***************************************************************************)
(* Scripted runs: one fixed stream of frames and UI operations is fed to a *)
(* freshly created session, one operation per step.                        *)
(***************************************************************************)
Rep(x, n) == [i \in 1..n |-> x]

HoldScenarios == {"hold_D", "hold_A", "hold_X"}
HoldLetter(name) ==
    CASE name = "hold_D" -> "D" [] name = "hold_A" -> "A" [] OTHER -> "X"

Script(v, name) ==
    CASE name \in HoldScenarios ->
            Rep(HoldLetter(name), 2 * STABLE_THRESHOLD)
      [] name = "D15_O5_D15" ->
            Rep("D", STABLE_THRESHOLD) \o Rep("OPEN", 5) \o Rep("D", STABLE_THRESHOLD)
      [] name = "D15_O15_Dlong" ->
            \* the second run of D is longer by half a window: 17 frames for
            \* BUFFER_SIZE 5, 20 frames for BUFFER_SIZE 10
            Rep("D", STABLE_THRESHOLD) \o Rep("OPEN", STABLE_THRESHOLD)
            \o Rep("D", STABLE_THRESHOLD + (BUFFER_SIZE(v) \div 2))
      [] name = "X_then_A15_N3_A15" ->
            \* X is committed, the window is filled with A, the hand is taken
            \* away and the space is deleted: the text is "X", the streak count 0
            \* and the lock empty, as in a fresh engine
            Rep("X", STABLE_THRESHOLD) \o Rep("A", BUFFER_SIZE(v))
            \o <<"NOHAND", "BACK">>
            \o Rep("A", STABLE_THRESHOLD) \o Rep("NOHAND", 3)
            \o Rep("A", STABLE_THRESHOLD)
      [] OTHER -> <<>>

Scenarios == HoldScenarios \cup {"D15_O5_D15", "D15_O15_Dlong", "X_then_A15_N3_A15"}

\* the frame the detector delivers for a pose of the script
FrameFor(v, op) ==
    CASE op = "D" -> FrameD
      [] op = "A" -> FrameA
      [] op = "X" -> FrameX(v)
      [] OTHER    -> FrameOpen

InitScript ==
    /\ variant \in Variants
    /\ FreshEngine
    /\ factor = 1
    /\ hand = NoFrame
    /\ symbol = Pending
    /\ fed = 0
    /\ inflight = {}
    /\ started = 0
    /\ applied = <<>>
    /\ NoWave
    /\ scenario \in Scenarios

NextOp == Script(variant, scenario)[fed + 1]

scriptFrame == <<variant, factor, hand, symbol, scenario, inflight, started, applied,
                 waveVars>>

FeedHand ==
    /\ fed < Len(Script(variant, scenario))
    /\ NextOp \notin {"NOHAND", "BACK"}
    /\ DetectHand(FrameFor(variant, NextOp))
    /\ fed' = fed + 1
    /\ UNCHANGED scriptFrame

FeedNoHand ==
    /\ fed < Len(Script(variant, scenario))
    /\ NextOp = "NOHAND"
    /\ DetectNoHand
    /\ fed' = fed + 1
    /\ UNCHANGED scriptFrame

FeedBack ==
    /\ fed < Len(Script(variant, scenario))
    /\ NextOp = "BACK"
    /\ Backspace
    /\ fed' = fed + 1
    /\ UNCHANGED scriptFrame

NextScript == FeedHand \/ FeedNoHand \/ FeedBack

SpecScript == InitScript /\ [][NextScript]_vars

(***************************************************************************)
(* The frame loop: loop() calls detect() and re-arms itself with           *)
(* requestAnimationFrame without awaiting the promise detect() returns.    *)
(* detect() suspends at `await detector.estimateHands(...)`; the next      *)
(* animation frame may start another detect() while earlier ones are still *)
(* suspended.  The code imposes no order on the resumption of suspended    *)
(* calls.                                                                  *)
(***************************************************************************)
MaxFrames == 4

loopFrame == <<variant, factor, hand, symbol, scenario, fed, waveVars>>

\* loop(): detect() runs up to its await; requestAnimationFrame(loop)
LoopTick ==
    /\ started < MaxFrames
    /\ started' = started + 1
    /\ inflight' = inflight \cup {started + 1}
    /\ UNCHANGED <<engineVars, applied, loopFrame>>

\* estimateHands of call n resolves with a hand
ResumeHand ==
    \E n \in inflight, f \in EngineFrames :
        /\ DetectHand(f)
        /\ inflight' = inflight \ {n}
        /\ applied' = Append(applied, n)
        /\ UNCHANGED <<started, loopFrame>>

\* estimateHands of call n resolves with no hand
ResumeNoHand ==
    \E n \in inflight :
        /\ DetectNoHand
        /\ inflight' = inflight \ {n}
        /\ applied' = Append(applied, n)
        /\ UNCHANGED <<started, loopFrame>>

NextLoop == LoopTick \/ ResumeHand \/ ResumeNoHand

SpecLoop == Init /\ [][NextLoop]_vars

(***************************************************************************)
(* Sessions in which the detector may also deliver a malformed hand.       *)
(***************************************************************************)
MalformedFrame ==
    /\ \E f \in {ShortFrame, NaNFrame} : DetectHand(f)
    /\ InBounds
    /\ UNCHANGED otherVars

NextMalformed == HandFrameD \/ NoHandFrame \/ MalformedFrame

SpecMalformed == Init /\ [][NextMalformed]_vars

(***************************************************************************)
(* Classifier runs: recognizeGesture is applied to one frame.              *)
(***************************************************************************)
ClassifierInputs == HandFrames \cup {NaNFrame}

InitClassify ==
    /\ variant \in Variants
    /\ FreshEngine
    /\ factor = 1
    /\ hand \in ClassifierInputs
    /\ symbol = Pending
    /\ scenario = ""
    /\ fed = 0
    /\ inflight = {}
    /\ started = 0
    /\ applied = <<>>
    /\ NoWave

Classify ==
    /\ symbol = Pending
    /\ symbol' = recognizeGesture(variant, hand)
    /\ UNCHANGED <<engineVars, variant, factor, hand, scenario, fed, inflight, started,
                   applied, waveVars>>

NextClassify == Classify

SpecClassify == InitClassify /\ [][NextClassify]_vars

(***************************************************************************)
(* Classifier runs on degenerate geometry: handSize is 0, every T(c) is 0. *)
(***************************************************************************)
\* all 21 keypoints at the same point
PointFrame == [k |-> [i \in 0..20 |-> <<10, 20>>], n |-> 21, nan |-> FALSE]
\* the middle-finger MCP (keypoint 9) on the wrist (keypoint 0)
Collapse(f) == [f EXCEPT !.k[9] = f.k[0]]
DegenerateFrames == {Collapse(f) : f \in HandFrames} \cup {PointFrame}

\* the state before recognizeGesture is called on one of the frames of S,
\* scaled by one of the factors of C
ClassifyFrom(S, C) ==
    /\ variant \in Variants
    /\ FreshEngine
    /\ factor \in C
    /\ hand \in S
    /\ symbol = Pending
    /\ scenario = ""
    /\ fed = 0
    /\ inflight = {}
    /\ started = 0
    /\ applied = <<>>
    /\ NoWave

InitDegenerate == ClassifyFrom(DegenerateFrames, {1})

SpecDegenerate == InitDegenerate /\ [][NextClassify]_vars

(***************************************************************************)
(* Classifier runs on a frame whose coordinates are all multiplied by a    *)
(* factor.                                                                 *)
(***************************************************************************)
MaxFactor == 3
ScaleFactors == 2..MaxFactor

InitScale == ClassifyFrom(HandFrames, ScaleFactors)

ClassifyScaled ==
    /\ symbol = Pending
    /\ symbol' = recognizeGesture(variant, Scale(hand, factor))
    /\ UNCHANGED <<engineVars, variant, factor, hand, scenario, fed, inflight,
                   started, applied, waveVars>>

NextScale == ClassifyScaled

SpecScale == InitScale /\ [][NextScale]_vars

(***************************************************************************)
(* The wave variant.  Its source is not among the files under src/; the    *)
(* step below follows section 4.2 of the specification ("Wave detection")  *)
(* and runs in front of the stabilization step of detect().                *)
(***************************************************************************)
WAVE == "WAVE"
HELLO == <<SP, "H", "E", "L", "L", "O", SP>>
WAVE_CYCLES == 4
WAVE_RESET_FRAMES == 10

\* all four fingers extended: the precondition of wave tracking
FourExtended(v, f) == ExtBits(v, f) = <<TRUE, TRUE, TRUE, TRUE>>

\* the magnitude of the x displacement exceeds handSize * 0.04
Moved(f, dx) == GtT(f, Abs(dx), 4, 100)

Sign(a) == IF a > 0 THEN 1 ELSE IF a < 0 THEN -1 ELSE 0

\* mutant: stationary frames never zero the count
TrackedCycles_NoReset(moved, dir) ==
    IF moved /\ waveDirection # 0 /\ dir # waveDirection
    THEN waveCycleCount + 1
    ELSE waveCycleCount

\* waveCycleCount after a displacement has been tracked: a reversal of an
\* established direction counts one cycle, more than WAVE_RESET_FRAMES frames
\* below the threshold zero the count
TrackedCycles(moved, dir) ==
    IF moved
    THEN IF waveDirection # 0 /\ dir # waveDirection
         THEN waveCycleCount + 1
         ELSE waveCycleCount
    ELSE IF waveStationaryFrames + 1 > WAVE_RESET_FRAMES
         THEN 0
         ELSE waveCycleCount

\* the cycle count the frame reaches, before a detection resets it
CyclesReached(four, moved, dir) ==
    IF four /\ prevWristX # NoX THEN TrackedCycles(moved, dir) ELSE waveCycleCount

WaveDetected(reached) == reached >= WAVE_CYCLES

\* the wave state is emptied
WaveReset ==
    /\ prevWristX' = NoX
    /\ waveDirection' = 0
    /\ waveStationaryFrames' = 0
    /\ UNCHANGED waveCycleCount

\* the wave counters after a frame with the wrist at x
WaveTrack(four, x, moved, dir, reached) ==
    IF ~four
    THEN WaveReset
    ELSE /\ prevWristX' = x
         /\ waveCycleCount' = IF WaveDetected(reached) THEN 0 ELSE reached
         /\ IF prevWristX = NoX
            THEN UNCHANGED <<waveDirection, waveStationaryFrames>>
            ELSE IF moved
                 THEN /\ waveDirection' = dir
                      /\ waveStationaryFrames' = 0
                 ELSE /\ waveStationaryFrames' = waveStationaryFrames + 1
                      /\ UNCHANGED waveDirection

\* a hand frame of the wave variant: wave tracking, the raw symbol overridden
\* to WAVE on a detection, " HELLO " appended under the lock, then smoothing,
\* streak and commit as in detect()
WaveDetectHand(f) ==
    \E four \in {FourExtended(variant, f)} :
    \E moved \in {Moved(f, PX(f, 0) - prevWristX)} :
    \E dir \in {Sign(PX(f, 0) - prevWristX)} :
    \E reached \in {CyclesReached(four, moved, dir)} :
    \E raw \in {IF WaveDetected(reached) THEN WAVE ELSE recognizeGesture(variant, f)} :
    \E buf \in {Push(variant, gestureBuffer, raw)} :
    \E sm \in {Smoothed(buf, raw)} :
    \E cnt \in {NextStableCount(sm)} :
    LET wave == WaveDetected(reached)
        t1   == IF wave /\ lastWrittenLetter # WAVE THEN text \o HELLO ELSE text
        lw1  == IF wave THEN WAVE ELSE lastWrittenLetter
        put  == IsStable(cnt) /\ IsWritable(sm) /\ sm # WAVE /\ sm # lw1
    IN  /\ WaveTrack(four, PX(f, 0), moved, dir, reached)
        /\ wasHandPresent' = TRUE
        /\ autoSpaces' = 0
        /\ gestureBuffer' = buf
        /\ gesture' = sm
        /\ stableGesture' = sm
        /\ stableCount' = cnt
        /\ text' = IF put THEN Append(t1, sm) ELSE t1
        /\ runCommits' = (IF sm = gesture THEN runCommits ELSE 0)
                          + (IF put THEN 1 ELSE 0)
        /\ lastWrittenLetter' =
              IF put THEN sm
              ELSE IF IsStable(cnt) /\ ~IsWritable(sm) THEN "" ELSE lw1
        /\ err' = ""

MaxWaveText == 7
MaxStationary == 11
WristOffsets == {0, 3, 8}

\* the open hand ten times as large (handSize 100), the wrist moved by dx
WaveFrame(dx) == Translate(Scale(FrameOpen, 10), dx)
WaveFrames == {WaveFrame(dx) : dx \in WristOffsets}
\* the fist of pose A at the same size
WaveClosed == Scale(FrameA, 10)

waveFrame == <<variant, factor, hand, symbol, scenario, fed, inflight, started, applied>>

WaveInBounds ==
    /\ stableCount' <= MaxCount
    /\ Len(text') <= MaxWaveText
    /\ Runs(gestureBuffer') <= MaxRuns
    /\ waveStationaryFrames' <= MaxStationary

\* an open hand at one of the wrist positions
WaveOpenFrame ==
    /\ \E f \in WaveFrames : WaveDetectHand(f)
    /\ WaveInBounds
    /\ UNCHANGED waveFrame

\* a closed hand, shown too briefly to become the displayed symbol
WaveClosedFrame ==
    /\ WaveDetectHand(WaveClosed)
    /\ gesture' # "A"
    /\ WaveInBounds
    /\ UNCHANGED waveFrame

\* no hand: no finger is extended, the wave state is emptied
WaveNoHandFrame ==
    /\ DetectNoHand
    /\ WaveReset
    /\ WaveInBounds
    /\ UNCHANGED waveFrame

NextWave == WaveOpenFrame \/ WaveClosedFrame \/ WaveNoHandFrame

SpecWave == Init /\ [][NextWave]_vars

(***************************************************************************)
(* Properties                                                              *)
(***************************************************************************)
ScriptDone == fed = Len(Script(variant, scenario))

(* C1: from a freshly created session, the same letter fed on 15          *)
(* consecutive hand-present frames is appended to the text exactly once,   *)
(* at the 15th frame, and feeding it on up to 30 frames leaves it appended *)
(* exactly once; for both window capacities.                               *)
C1_HoldCommitsOnce ==
    scenario \in HoldScenarios =>
        IF fed < STABLE_THRESHOLD
        THEN text = <<>>
        ELSE text = <<HoldLetter(scenario)>>

C1_Witness ==
    /\ scenario = "hold_D"
    /\ variant = "App"
    /\ fed = 2 * STABLE_THRESHOLD
    /\ text = <<"D">>

(* C2, as claimed: with window capacity 5 the stream D x 15, open hand x 5, *)
(* D x 15 leaves the text "DD".                                            *)
C2_Original ==
    (scenario = "D15_O5_D15" /\ variant = "part_000" /\ ScriptDone)
        => text = <<"D", "D">>

(* C2, amended: the stream D x 15, open hand x 5, D x 15 leaves the text   *)
(* "D" and the lock still on D (five neutral frames never make the open    *)
(* hand stable); the stream D x 15, open hand x 15, D x (15 + half the     *)
(* window) leaves "DD".                                                    *)
C2_Amended ==
    /\ (scenario = "D15_O5_D15" /\ ScriptDone)
            => (text = <<"D">> /\ lastWrittenLetter = "D")
    /\ (scenario = "D15_O15_Dlong" /\ ScriptDone) => text = <<"D", "D">>

C2_Witness ==
    /\ scenario = "D15_O5_D15"
    /\ variant = "part_000"
    /\ ScriptDone
    /\ text = <<"D">>

\* the operations of "X_then_A15_N3_A15" that come before the claimed stream
C3_Prefix == STABLE_THRESHOLD + BUFFER_SIZE(variant) + 2

(* C3: from an engine whose text is "X", whose streak count is 0, whose    *)
(* lock is empty and which has no hand present, 15 frames of A, 3 frames   *)
(* without a hand and 15 frames of A leave the text "XA A": A is committed *)
(* at the 15th frame, one space is appended on the loss, and A is          *)
(* committed again after the hand returns.                                 *)
C3_SpaceThenRecommit ==
    scenario = "X_then_A15_N3_A15" =>
        /\ fed = C3_Prefix =>
              /\ text = <<"X">>
              /\ stableCount = 0
              /\ lastWrittenLetter = ""
              /\ ~wasHandPresent
        /\ fed = C3_Prefix + STABLE_THRESHOLD => text = <<"X", "A">>
        /\ fed \in (C3_Prefix + STABLE_THRESHOLD + 1)..(C3_Prefix + STABLE_THRESHOLD + 3)
              => text = <<"X", "A", SP>>
        /\ ScriptDone => text = <<"X", "A", SP, "A">>

C3_Witness ==
    /\ scenario = "X_then_A15_N3_A15"
    /\ ScriptDone
    /\ fed = C3_Prefix + 2 * STABLE_THRESHOLD + 3
    /\ text = <<"X", "A", SP, "A">>

EndsWithSpace(t) == Len(t) > 0 /\ t[Len(t)] = SP

(* C4, as claimed: every loss of the hand with a non-empty text appends    *)
(* exactly one space.                                                      *)
C4_Original ==
    [][(NoHandFrame /\ wasHandPresent /\ text # <<>>) => text' = Append(text, SP)]_vars

(* C4, amended: a frame without a hand appends exactly one space when the  *)
(* hand was present on the previous frame and the text is non-empty and    *)
(* does not already end with a space, and leaves the text unchanged        *)
(* otherwise; no more than one space is appended while the hand stays      *)
(* absent, and none before a hand has been seen.                           *)
C4_Amended ==
    [][ /\ (NoHandFrame /\ wasHandPresent /\ text # <<>> /\ ~EndsWithSpace(text))
            => text' = Append(text, SP)
        /\ (NoHandFrame /\ (~wasHandPresent \/ text = <<>> \/ EndsWithSpace(text)))
            => text' = text
        /\ autoSpaces' <= 1
        /\ gestureBuffer' = <<>> => autoSpaces' = 0 ]_vars

C4_Witness ==
    /\ ~wasHandPresent
    /\ autoSpaces = 1
    /\ Len(text) >= 2
    /\ EndsWithSpace(text)

(* C5: the text never contains the neutral open-hand symbol nor the        *)
(* no-hand string, whatever frames and UI operations occur.                *)
C5_NeutralNeverInText ==
    \A i \in 1..Len(text) : text[i] \notin {OpenHand, ShowHand}

C5_Witness ==
    /\ stableGesture = OpenHand
    /\ stableCount >= STABLE_THRESHOLD
    /\ text # <<>>

(* C6: clear empties the text, backspace removes exactly its last          *)
(* character; both empty the lock and leave the window, the streak symbol, *)
(* the streak count and the hand-present flag unchanged.                   *)
C6_ClearBackspaceFrame ==
    [][ /\ Clear => /\ text' = <<>>
                    /\ lastWrittenLetter' = ""
                    /\ UNCHANGED <<gestureBuffer, stableGesture, stableCount,
                                   wasHandPresent>>
        /\ Back  => /\ Len(text) > 0 => text' = SubSeq(text, 1, Len(text) - 1)
                    /\ Len(text) = 0 => text' = <<>>
                    /\ lastWrittenLetter' = ""
                    /\ UNCHANGED <<gestureBuffer, stableGesture, stableCount,
                                   wasHandPresent>> ]_vars

C6_Witness ==
    /\ text = <<>>
    /\ lastWrittenLetter = ""
    /\ stableGesture = "D"
    /\ stableCount >= STABLE_THRESHOLD
    /\ wasHandPresent

(* C7, as claimed: at most one detect() is in progress at any time, and    *)
(* the calls update the stabilization state in the order they were         *)
(* started.                                                                *)
C7_OneDetectAtATime ==
    /\ Cardinality(inflight) <= 1
    /\ \A i, j \in 1..Len(applied) : i < j => applied[i] < applied[j]

\* two consecutive frames with all four fingers extended
WaveStep == prevWristX # NoX /\ prevWristX' # NoX
\* the wrist moved more than handSize * 0.04 between them
WaveMoved == Moved(WaveFrame(0), prevWristX' - prevWristX)
\* the movement turns an established direction around
Reversal ==
    /\ WaveStep
    /\ WaveMoved
    /\ waveDirection # 0
    /\ Sign(prevWristX' - prevWristX) # waveDirection

\* the text becomes t, or t followed by the one symbol the stabilization
\* step of the same frame commits
TextBecomes(t) ==
    \/ text' = t
    \/ Len(text') = Len(t) + 1 /\ SubSeq(text', 1, Len(t)) = t

C8_ResetReached ==
    /\ waveStationaryFrames > WAVE_RESET_FRAMES
    /\ waveCycleCount = 0
    /\ waveDirection # 0
    /\ text = <<>>

(* C9: for every frame of 21 keypoints recognizeGesture returns a symbol   *)
(* of the alphabet: a letter other than J and Z, or the neutral open hand. *)
C9_ClassifyTotal ==
    symbol # Pending => symbol \in Alphabet

\* index and ring extended, middle and pinky not: no family matches
C9_Witness ==
    /\ symbol = OpenHand
    /\ ExtBits(variant, hand) = <<TRUE, FALSE, TRUE, FALSE>>

InvalidFrame == "InvalidFrame"

(* C10, as claimed: a malformed frame is rejected with the InvalidFrame    *)
(* condition and leaves the window, the streak, the lock, the hand-present *)
(* flag and the text unchanged.                                            *)
C10_MalformedRejected ==
    [][MalformedFrame =>
        /\ err' = InvalidFrame
        /\ UNCHANGED <<gestureBuffer, stableGesture, stableCount,
                       lastWrittenLetter, wasHandPresent, text>>]_vars

(* C11, as claimed: a frame with handSize = 0 is classified as the neutral *)
(* symbol, never as a letter.                                              *)
C11_DegenerateNeverLetter ==
    symbol # Pending => symbol = OpenHand

Freq(buf, g) == Cardinality({j \in 1..Len(buf) : buf[j] = g})
\* the highest number of occurrences of one symbol
MaxFreq(buf) ==
    CHOOSE n \in 1..Len(buf) :
        /\ \E j \in 1..Len(buf) : Freq(buf, buf[j]) = n
        /\ \A j \in 1..Len(buf) : Freq(buf, buf[j]) <= n
\* the position, scanning from the oldest entry, at which g has occurred
\* MaxFreq(buf) times
FirstReach(buf, g) ==
    CHOOSE i \in 1..Len(buf) :
        /\ buf[i] = g
        /\ Cardinality({j \in 1..i : buf[j] = g}) = MaxFreq(buf)
\* the symbols tied for the highest count
MostFrequent(buf) == {buf[j] : j \in {i \in 1..Len(buf) : Freq(buf, buf[i]) = MaxFreq(buf)}}
\* of these, the one that reaches the count first
MajorityFirst(buf) ==
    CHOOSE g \in MostFrequent(buf) :
        \A h \in MostFrequent(buf) : FirstReach(buf, g) <= FirstReach(buf, h)

(* C13: the smoothed symbol of a hand frame is a most frequent symbol of   *)
(* the window after the push, among tied symbols the one that reaches the  *)
(* highest count first scanning from the oldest entry; it is determined by *)
(* the window contents alone.                                              *)
C13_SmoothedIsMajority ==
    gesture # ShowHand => gesture = MajorityFirst(gestureBuffer)

\* a tie between D and the open hand, decided for the later-started symbol
\* that reaches the count first
C13_Witness ==
    /\ gesture = OpenHand
    /\ gestureBuffer # <<>>
    /\ gestureBuffer[1] = "D"
    /\ Freq(gestureBuffer, "D") = Freq(gestureBuffer, OpenHand)

(* C14: on a hand frame the streak count becomes the previous count plus 1 *)
(* when the smoothed symbol equals the streak symbol, else the streak      *)
(* becomes (smoothed symbol, 1); the frame appends to the text exactly     *)
(* when the new count is at least STABLE_THRESHOLD, the smoothed symbol is *)
(* not the neutral one and differs from lastWrittenLetter, and then it     *)
(* appends that symbol and sets lastWrittenLetter to it.                   *)
C14_StreakAndCommit ==
    [][HandFrame =>
        /\ stableGesture' = gesture'
        /\ stableCount' = IF gesture' = stableGesture THEN stableCount + 1 ELSE 1
        /\ LET eligible == /\ stableCount' >= STABLE_THRESHOLD
                           /\ gesture' # OpenHand
                           /\ gesture' # lastWrittenLetter
           IN  /\ (text' # text) <=> eligible
               /\ eligible => /\ text' = Append(text, gesture')
                              /\ lastWrittenLetter' = gesture' ]_vars

\* the frame that made the streak of D reach the threshold has appended it
C14_Witness ==
    /\ stableCount = STABLE_THRESHOLD
    /\ stableGesture = "D"
    /\ lastWrittenLetter = "D"
    /\ text = <<"D">>
    /\ runCommits = 1

(* C15: over a run of consecutive hand frames with the same smoothed       *)
(* letter and no clear, backspace or space key, the letter is appended at  *)
(* most once.                                                              *)
C15_AtMostOncePerHold ==
    runCommits <= 1

\* D held beyond the threshold after its commit
C15_Witness ==
    /\ runCommits = 1
    /\ gesture = "D"
    /\ stableCount > STABLE_THRESHOLD

(* C16: a hand frame whose streak count is below STABLE_THRESHOLD leaves   *)
(* lastWrittenLetter and the text unchanged; lastWrittenLetter is cleared  *)
(* through the neutral symbol only at a count of at least the threshold,   *)
(* and such a frame appends nothing.                                       *)
C16_NeutralClearsWhenStable ==
    [][HandFrame =>
        /\ stableCount' < STABLE_THRESHOLD => UNCHANGED <<lastWrittenLetter, text>>
        /\ (lastWrittenLetter # "" /\ lastWrittenLetter' = "") =>
              /\ gesture' = OpenHand
              /\ stableCount' >= STABLE_THRESHOLD
              /\ text' = text
        /\ (gesture' = OpenHand /\ stableCount' >= STABLE_THRESHOLD) =>
              /\ lastWrittenLetter' = ""
              /\ text' = text ]_vars

\* the open hand held to the threshold has cleared the lock D had set
C16_Witness ==
    /\ text = <<"D">>
    /\ lastWrittenLetter = ""
    /\ gesture = OpenHand
    /\ stableCount >= STABLE_THRESHOLD
    /\ wasHandPresent

(* C17: a frame without a hand sets the streak count to 0 and              *)
(* lastWrittenLetter to empty and changes the text only when the previous  *)
(* frame had a hand; a hand frame raises the count by at most 1 and        *)
(* appends only at a count of at least STABLE_THRESHOLD, so that a commit  *)
(* after the return needs that many hand frames again.                     *)
C17_NoHandResets ==
    [][ /\ NoHandFrame =>
              /\ stableCount' = 0
              /\ lastWrittenLetter' = ""
              /\ text' # text => (wasHandPresent /\ ~wasHandPresent')
        /\ HandFrame =>
              /\ stableCount' <= stableCount + 1
              /\ text' # text => stableCount' >= STABLE_THRESHOLD ]_vars

\* the hand was lost right after D was committed
C17_Witness ==
    /\ ~wasHandPresent
    /\ stableCount = 0
    /\ lastWrittenLetter = ""
    /\ stableGesture = "D"
    /\ text = <<"D", SP>>

(* C18: a processed frame leaves the text unchanged or appends exactly one *)
(* token to it; only clear and backspace remove characters.                *)
C18_AppendOnly ==
    [][ /\ (HandFrame \/ NoHandFrame) => TextBecomes(text)
        /\ Len(text') < Len(text) => (Clear \/ Back) ]_vars

\* a letter and the automatic space, the hand back in view
C18_Witness ==
    /\ text = <<"D", SP>>
    /\ wasHandPresent
    /\ stableCount > 0

\* the last n entries of seq
LastN(seq, n) ==
    IF Len(seq) <= n THEN seq ELSE SubSeq(seq, Len(seq) - n + 1, Len(seq))

(* C19: the window holds at most BUFFER_SIZE symbols; a hand frame makes   *)
(* it the previous window followed by the frame's raw symbol, cut to the   *)
(* newest BUFFER_SIZE entries; frames without a hand and the UI operations *)
(* leave it as it is.                                                      *)
C19_WindowFifo ==
    [][ /\ Len(gestureBuffer') <= BUFFER_SIZE(variant)
        /\ HandFrame =>
              \E f \in EngineFrames :
                  gestureBuffer' = LastN(Append(gestureBuffer, recognizeGesture(variant, f)),
                                         BUFFER_SIZE(variant))
        /\ ~HandFrame => gestureBuffer' = gestureBuffer ]_vars

\* a full window of ten that has survived the loss of the hand
C19_Witness ==
    /\ variant = "App"
    /\ Len(gestureBuffer) = BUFFER_SIZE(variant)
    /\ ~wasHandPresent
    /\ gesture = ShowHand

\* the families of the four-bit vector <<index, middle, ring, pinky>> as claimed
FamilyClaimed(bits) ==
    CASE bits = <<TRUE, FALSE, FALSE, FALSE>> -> {"G", "L", "X", "D"}
      [] bits = <<TRUE, TRUE, FALSE, FALSE>>  -> {"H", "R", "K", "P", "V", "U"}
      [] bits = <<TRUE, TRUE, TRUE, FALSE>>   -> {"W", "F"}
      [] bits = <<TRUE, TRUE, TRUE, TRUE>>    -> {"B", "C", OpenHand}
      [] bits = <<FALSE, FALSE, FALSE, FALSE>> -> {"O", "E", "A", "M", "N", "T", "S"}
      [] bits = <<FALSE, FALSE, FALSE, TRUE>> -> {"I", "Y"}
      [] OTHER -> Alphabet

\* the symbols the precedence of the tests adds to a family
FamilyExtra(v, bits) ==
    IF v = "App"
    THEN CASE bits = <<TRUE, FALSE, FALSE, FALSE>> -> {"Q"}
           [] bits = <<FALSE, FALSE, FALSE, FALSE>> -> {"G", "X"}
           [] OTHER -> {}
    ELSE CASE bits = <<TRUE, TRUE, TRUE, TRUE>> -> {"F"}
           [] OTHER -> {}

(* C20, as claimed: the returned symbol belongs to the family of the       *)
(* frame's four-bit vector, in both rule sets.                             *)
C20_Original ==
    symbol # Pending => symbol \in FamilyClaimed(ExtBits(variant, hand))

(* C20, amended: the families overlap through the order of the tests:      *)
(* App.js also returns Q for index only and G or X for the fist, part_000  *)
(* also returns F for all four.                                            *)
C20_Amended ==
    symbol # Pending =>
        symbol \in FamilyClaimed(ExtBits(variant, hand))
                       \cup FamilyExtra(variant, ExtBits(variant, hand))

\* App.js reads the hooked index of a closed hand as X
C20_Witness ==
    /\ variant = "App"
    /\ symbol = "X"
    /\ ExtBits(variant, hand) = <<FALSE, FALSE, FALSE, FALSE>>

(* C21: when, from any reachable state, every following frame is a hand    *)
(* frame with the same raw letter s and no UI operation occurs, then after *)
(* BUFFER_SIZE + STABLE_THRESHOLD frames lastWrittenLetter is s, the       *)
(* window and the streak hold s only, and later frames leave the text as   *)
(* it is.                                                                  *)
C21_HoldCommitsWithinBound ==
    [][Hold =>
        LET s == recognizeGesture(variant, hand')
            due == BUFFER_SIZE(variant) + STABLE_THRESHOLD
        IN  /\ fed' >= due =>
                  /\ lastWrittenLetter' = s
                  /\ stableGesture' = s
                  /\ \A i \in 1..Len(gestureBuffer') : gestureBuffer'[i] = s
            /\ fed' > due => text' = text ]_vars

\* A held from a session that had committed D: A is the last symbol of the text
C21_Witness ==
    /\ hand = FrameA
    /\ fed = BUFFER_SIZE(variant) + STABLE_THRESHOLD + 1
    /\ lastWrittenLetter = "A"
    /\ text = <<"D", "A">>

(* C22: when clear or backspace is issued while a letter is held with a    *)
(* streak of at least STABLE_THRESHOLD and already committed, the          *)
(* operation empties lastWrittenLetter and keeps the streak, and the next  *)
(* hand frame whose smoothed symbol is still that letter appends it again. *)
C22_ReCommitAfterOp ==
    [][ /\ OpInHold =>
              /\ lastWrittenLetter' = ""
              /\ stableCount' = stableCount
              /\ stableGesture' = stableGesture
        /\ (FrameAfterOp /\ gesture' = gesture) =>
              /\ text' = Append(text, gesture)
              /\ lastWrittenLetter' = gesture ]_vars

\* D written, cleared during the hold, and written again by the next frame
C22_Witness ==
    /\ fed = 2
    /\ text = <<"D">>
    /\ lastWrittenLetter = "D"
    /\ stableCount > STABLE_THRESHOLD

(* C23: in every state reached from an empty text by frames, clear and     *)
(* backspace only, the text does not begin with a space and has no two     *)
(* adjacent spaces.                                                        *)
C23_NoLeadingOrDoubleSpace ==
    /\ text # <<>> => text[1] # SP
    /\ \A i \in 1..(Len(text) - 1) : ~(text[i] = SP /\ text[i + 1] = SP)

\* two words, each closed by the space of a hand loss
C23_Witness ==
    /\ text = <<"D", SP, "D", SP>>
    /\ ~wasHandPresent
    /\ autoSpaces = 1
=============================================================================
